---- MODULE Spec2Model ----
(***************************************************************************)
(* Model of the constant-string crate: one constant type generated by      *)
(* constant_string!(Name, CODE_NAME, code), its Default / Deref / Debug    *)
(* scaffolding, its serde Deserialize / Serialize implementations built on *)
(* MustBeStrVisitor, and its utoipa PartialSchema implementation.          *)
(*                                                                         *)
(* Text is a sequence of one-character strings.  Callers are threads; a    *)
(* deserialization is two steps (the visitor is built from the constant,   *)
(* then the deserializer drives it), every other call is one step.         *)
(***************************************************************************)
EXTENDS Naturals, Sequences, FiniteSets

\* ---------------------------------------------------------------- bounds
MaxLen == 1

Threads == {"t1", "t2"}

\* ------------------------------------------------------------------ text
DQ == "\""

BS == "\\"

Alphabet == {"a", "A", " ", DQ, BS}

Constant == <<"c", "o", "n", "s", "t", "a", "n", "t">>

Other == <<"o", "t", "h", "e", "r">>

Strings == UNION {[1..k -> Alphabet] : k \in 0..MaxLen}

\* The literals a constant type can be declared with.
Literals == Strings \cup {Constant}

\* char::escape_debug as used by <str as Debug>: the double quote and the
\* backslash get a backslash in front, every other character is written as is.
escape_debug(c) == IF c = DQ \/ c = BS THEN <<BS, c>> ELSE <<c>>

RECURSIVE escape_str(_)
escape_str(s) == IF s = <<>> THEN <<>> ELSE escape_debug(Head(s)) \o escape_str(Tail(s))

\* <str as Debug>::fmt: the escaped text between two double quotes.
str_debug(s) == <<DQ>> \o escape_str(s) \o <<DQ>>

\* <str as Display>::fmt: the text itself.
str_display(s) == s

\* ---------------------------------------------------------------- values
\* A value of the self-describing data model handed to deserialize_any.
Str(s) == [shape |-> "Str", val |-> s]

Num == [shape |-> "Num", val |-> <<"4", "2">>]

BoolTrue == [shape |-> "Bool", val |-> <<"true">>]

BoolFalse == [shape |-> "Bool", val |-> <<"false">>]

Null == [shape |-> "Null", val |-> <<>>]

SeqValue == [shape |-> "Seq", val |-> <<>>]

MapValue == [shape |-> "Map", val |-> <<>>]

NonStrings == {Num, BoolTrue, BoolFalse, Null, SeqValue, MapValue}

Inputs == {Str(s) : s \in Strings \cup {Constant, Other}} \cup NonStrings

\* serde::de::Unexpected
Unexpected(variant, val) == [variant |-> variant, val |-> val]

NoUnexpected == Unexpected("None", <<>>)

\* ------------------------------------------------------------------ state
VARIABLES code, code_name, th, wire

vars == <<code, code_name, th, wire>>

\* Result<(), E> of a visitor method, Result<Self, D::Error> of deserialize and
\* Result<S::Ok, S::Error> of serialize.
Ok == [kind |-> "Ok", unexp |-> NoUnexpected, exp |-> <<>>]

NoResult == [kind |-> "None", unexp |-> NoUnexpected, exp |-> <<>>]

\* The unit struct `pub struct $name;`: its one value.
Self == "Self"

\* Equality derived for the unit struct: two instances are always equal.
eq(a, b) == a = Self /\ b = Self

NoSchema == [schema_type |-> "None", enum_values |-> <<>>]

\* ---------------------------------------------------------------- visitor
\* Mutant of expecting: the literal written with Display instead of Debug.
expecting_display(self0) == str_display(self0)

\* MustBeStrVisitor(self0)::expecting: the literal in its Debug form.
expecting(self0) == str_debug(self0)

\* serde::de::Error::invalid_value(unexp, &visitor)
invalid_value(unexp, self0) == [kind |-> "InvalidValue", unexp |-> unexp, exp |-> expecting(self0)]

\* serde::de::Error::invalid_type(unexp, &visitor)
invalid_type(unexp, self0) == [kind |-> "InvalidType", unexp |-> unexp, exp |-> expecting(self0)]

lower(c) == IF c = "A" THEN "a" ELSE c

\* Mutant of visit_str: the comparison ignores case.
visit_str_nocase(self0, v) ==
    IF /\ Len(v) = Len(self0)
       /\ \A i \in 1..Len(v) : lower(v[i]) = lower(self0[i])
    THEN Ok
    ELSE invalid_value(Unexpected("Str", v), self0)

\* Mutant of visit_str: the failure reports the expected text as the one found.
visit_str_wrong_actual(self0, v) ==
    IF v = self0 THEN Ok ELSE invalid_value(Unexpected("Str", self0), self0)

visit_str(self0, v) == IF v = self0 THEN Ok ELSE invalid_value(Unexpected("Str", v), self0)

\* The methods MustBeStrVisitor does not override keep the Visitor defaults.
visit_bool(self0, v) == invalid_type(Unexpected("Bool", v), self0)

visit_u64(self0, v) == invalid_type(Unexpected("Unsigned", v), self0)

\* Mutant of visit_unit: a unit (null) is accepted, as a visitor of () would.
visit_unit_accept(self0) == Ok

visit_unit(self0) == invalid_type(Unexpected("Unit", <<>>), self0)

visit_seq(self0) == invalid_type(Unexpected("Seq", <<>>), self0)

visit_map(self0) == invalid_type(Unexpected("Map", <<>>), self0)

\* deserializer.deserialize_any(visitor): the deserializer looks at the shape
\* of the value it holds and calls the visitor method of that shape.
deserialize_any(x, self0) ==
    CASE x.shape = "Str" -> visit_str(self0, x.val)
      [] x.shape = "Bool" -> visit_bool(self0, x.val)
      [] x.shape = "Num" -> visit_u64(self0, x.val)
      [] x.shape = "Null" -> visit_unit(self0)
      [] x.shape = "Seq" -> visit_seq(self0)
      [] x.shape = "Map" -> visit_map(self0)

\* .map(|()| Self): the instance a deserialization result carries, if any.
map_self(r) == IF r.kind = "Ok" THEN <<Self>> ELSE <<>>

\* ------------------------------------------------------- the constant type
\* Mutant of deref: the macro expands stringify!($code) in place of the constant.
deref_stringify(self) == str_debug(code_name)

\* <$name as Deref>::deref
deref(self) == code_name

\* str::to_string reached through Deref.
to_string(self) == str_display(deref(self))

\* Mutant of fmt: the text is written with Display instead of Debug.
fmt_display(self) == str_display(deref(self))

\* <$name as Debug>::fmt
fmt(self) == str_debug(deref(self))

\* Mutant of serialize_calls: the Debug form of the constant is serialized.
serialize_calls_debug(self) == <<Str(str_debug(code_name))>>

\* <$name as Serialize>::serialize: the one call made on the serializer.
serialize_calls(self) == <<Str(code_name)>>

\* Mutant of serialize: an empty constant is refused before the serializer is called.
serialize_checked(self, ser) ==
    [Ok EXCEPT !.kind = IF code_name = <<>> THEN "Custom"
                        ELSE IF ser = "Ok" THEN "Ok" ELSE "SerializerError"]

\* <$name as Serialize>::serialize: the serializer's result is returned as is.
serialize(self, ser) == [Ok EXCEPT !.kind = IF ser = "Ok" THEN "Ok" ELSE "SerializerError"]

\* Mutant of schema: the enumeration of allowed values is left out.
schema_free == [schema_type |-> "String", enum_values |-> <<>>]

\* <$name as PartialSchema>::schema
schema == [schema_type |-> "String", enum_values |-> <<Str(code_name)>>]

\* ---------------------------------------------------------------- threads
Fresh ==
    [pc |-> "idle", op |-> "none", self |-> <<>>, input |-> Null, visitor |-> <<>>,
     res |-> NoResult, calls |-> <<>>, ser |-> "None", schema |-> NoSchema, text |-> <<>>]

Init ==
    /\ code \in Literals
    /\ code_name = code
    /\ th = [t \in Threads |-> Fresh]
    /\ wire = {}

\* Default::default()
Default(t) ==
    /\ th[t].pc = "idle"
    /\ th' = [th EXCEPT ![t] = [Fresh EXCEPT !.op = "default", !.self = <<Self>>]]
    /\ UNCHANGED <<code, code_name, wire>>

\* The unit struct expression `$name`.
Construct(t) ==
    /\ th[t].pc = "idle"
    /\ th' = [th EXCEPT ![t] = [Fresh EXCEPT !.op = "construct", !.self = <<Self>>]]
    /\ UNCHANGED <<code, code_name, wire>>

Deref(t) ==
    /\ th[t].pc = "idle"
    /\ th[t].self # <<>>
    /\ th' = [th EXCEPT ![t] = [Fresh EXCEPT !.op = "deref", !.self = th[t].self,
                                             !.text = deref(th[t].self[1])]]
    /\ UNCHANGED <<code, code_name, wire>>

ToString(t) ==
    /\ th[t].pc = "idle"
    /\ th[t].self # <<>>
    /\ th' = [th EXCEPT ![t] = [Fresh EXCEPT !.op = "to_string", !.self = th[t].self,
                                             !.text = to_string(th[t].self[1])]]
    /\ UNCHANGED <<code, code_name, wire>>

DebugFmt(t) ==
    /\ th[t].pc = "idle"
    /\ th[t].self # <<>>
    /\ th' = [th EXCEPT ![t] = [Fresh EXCEPT !.op = "debug", !.self = th[t].self,
                                             !.text = fmt(th[t].self[1])]]
    /\ UNCHANGED <<code, code_name, wire>>

\* Deserialize::deserialize, first half: the visitor is built from the
\* constant and handed to the deserializer, which holds the value x.
DeserializeBegin(t) ==
    /\ th[t].pc = "idle"
    /\ \E x \in Inputs \cup wire :
          th' = [th EXCEPT ![t] = [Fresh EXCEPT !.pc = "visiting", !.op = "deserialize",
                                                !.input = x, !.visitor = code_name]]
    /\ UNCHANGED <<code, code_name, wire>>

\* Mutant of DeserializeEnd: the outcome of a finished deserialization of
\* another thread is reused instead of visiting the value.
DeserializeEnd_cached(t) ==
    /\ th[t].pc = "visiting"
    /\ LET done == {u \in Threads : th[u].pc = "idle" /\ th[u].op = "deserialize"}
           r == IF done = {} THEN deserialize_any(th[t].input, th[t].visitor)
                ELSE th[CHOOSE u \in done : TRUE].res
       IN  th' = [th EXCEPT ![t].pc = "idle", ![t].res = r, ![t].self = map_self(r)]
    /\ UNCHANGED <<code, code_name, wire>>

\* Deserialize::deserialize, second half: the deserializer drives the visitor
\* and the unit result is mapped to the instance.
DeserializeEnd(t) ==
    /\ th[t].pc = "visiting"
    /\ LET r == deserialize_any(th[t].input, th[t].visitor)
       IN  th' = [th EXCEPT ![t].pc = "idle", ![t].res = r, ![t].self = map_self(r)]
    /\ UNCHANGED <<code, code_name, wire>>

\* Serialize::serialize on a serializer whose serialize_str returns ser.
Serialize(t) ==
    /\ th[t].pc = "idle"
    /\ th[t].self # <<>>
    /\ \E ser \in {"Ok", "Err"} :
          LET r == serialize(th[t].self[1], ser)
              c == serialize_calls(th[t].self[1])
          IN  /\ th' = [th EXCEPT ![t] = [Fresh EXCEPT !.op = "serialize", !.self = th[t].self,
                                                       !.res = r, !.calls = c, !.ser = ser]]
              /\ wire' = IF r.kind = "Ok" THEN wire \cup {c[i] : i \in 1..Len(c)} ELSE wire
    /\ UNCHANGED <<code, code_name>>

\* PartialSchema::schema(), an associated function: no instance is involved.
Schema(t) ==
    /\ th[t].pc = "idle"
    /\ th' = [th EXCEPT ![t] = [Fresh EXCEPT !.op = "schema", !.self = th[t].self,
                                             !.schema = schema]]
    /\ UNCHANGED <<code, code_name, wire>>

Next ==
    \E t \in Threads :
        \/ Default(t)
        \/ Construct(t)
        \/ Deref(t)
        \/ ToString(t)
        \/ DebugFmt(t)
        \/ DeserializeBegin(t)
        \/ DeserializeEnd(t)
        \/ Serialize(t)
        \/ Schema(t)

Spec == Init /\ [][Next]_vars

\* ----------------------------------------------------------------- claims
\* A call of the kind op that thread t has finished.
Done(t, op) == th[t].pc = "idle" /\ th[t].op = op

RECURSIVE unescape(_)
unescape(s) ==
    IF s = <<>> THEN <<>>
    ELSE IF Head(s) = BS /\ Len(s) >= 2 THEN <<s[2]>> \o unescape(SubSeq(s, 3, Len(s)))
    ELSE <<Head(s)>> \o unescape(Tail(s))

\* The text a Debug-formatted string stands for; <<"?">> when s is not one.
un_debug(s) ==
    IF Len(s) >= 2 /\ s[1] = DQ /\ s[Len(s)] = DQ
    THEN unescape(SubSeq(s, 2, Len(s) - 1))
    ELSE <<"?">>

\* C1: a finished deserialization succeeded exactly when its input is a
\* string equal to the bound literal, character for character; otherwise it
\* failed with InvalidValue or InvalidType and carries no instance.
C1_DeserializeIffEqual ==
    \A t \in Threads :
        Done(t, "deserialize") =>
            /\ th[t].res.kind = "Ok" <=> (th[t].input.shape = "Str" /\ th[t].input.val = code)
            /\ th[t].res.kind = "Ok" => th[t].self = <<Self>>
            /\ th[t].res.kind # "Ok" =>
                  /\ th[t].res.kind \in {"InvalidValue", "InvalidType"}
                  /\ th[t].self = <<>>

\* The literal "a": "a" was accepted while "A" was refused.
C1_Witness ==
    /\ code = <<"a">>
    /\ \E t, u \in Threads :
          /\ Done(t, "deserialize") /\ th[t].input = Str(<<"a">>) /\ th[t].res.kind = "Ok"
          /\ Done(u, "deserialize") /\ th[u].input = Str(<<"A">>) /\ th[u].res.kind # "Ok"

\* C2: a finished deserialization of a string other than the bound literal
\* failed with InvalidValue, and the failure carries the string that was
\* found and an expectation that spells the literal.
C2_InvalidValueCarriesBoth ==
    \A t \in Threads :
        (Done(t, "deserialize") /\ th[t].input.shape = "Str" /\ th[t].input.val # code) =>
            /\ th[t].res.kind = "InvalidValue"
            /\ th[t].res.unexp = Unexpected("Str", th[t].input.val)
            /\ un_debug(th[t].res.exp) = code
            /\ th[t].res.exp = <<DQ>> \o escape_str(code) \o <<DQ>>

\* Literal "constant", input "other": InvalidValue naming both.
C2_Witness ==
    /\ code = Constant
    /\ \E t \in Threads :
          /\ Done(t, "deserialize")
          /\ th[t].input = Str(Other)
          /\ th[t].res.kind = "InvalidValue"
          /\ th[t].res.unexp.val = Other
          /\ th[t].res.exp = <<DQ>> \o Constant \o <<DQ>>

\* C3: a finished deserialization of a value that is not a string failed
\* with InvalidType and carries no instance.
C3_NonStringInvalidType ==
    \A t \in Threads :
        (Done(t, "deserialize") /\ th[t].input.shape # "Str") =>
            /\ th[t].res.kind = "InvalidType"
            /\ th[t].self = <<>>

\* Both a number and a null were refused with InvalidType.
C3_Witness ==
    \E t, u \in Threads :
        /\ Done(t, "deserialize") /\ th[t].input = Num /\ th[t].res.kind = "InvalidType"
        /\ Done(u, "deserialize") /\ th[u].input = Null /\ th[u].res.kind = "InvalidType"

\* C4: a finished deserialization of a value that a serialization of this
\* type put on the wire succeeded, and its instance equals every instance
\* held by any thread; this holds however often values went round.
C4_RoundTrip ==
    \A t \in Threads :
        (Done(t, "deserialize") /\ th[t].input \in wire) =>
            /\ th[t].res.kind = "Ok"
            /\ th[t].self # <<>>
            /\ \A u \in Threads : th[u].self # <<>> => eq(th[t].self[1], th[u].self[1])

\* One thread serialized its instance and the other deserialized that value.
C4_Witness ==
    \E t, u \in Threads :
        /\ Done(u, "serialize") /\ th[u].res.kind = "Ok"
        /\ Done(t, "deserialize") /\ <<th[t].input>> = th[u].calls
        /\ th[t].self = <<Self>>

\* C5: an emitted schema has the primitive kind string and enumerates
\* exactly one allowed value, the bound literal.
C5_SchemaShape ==
    \A t \in Threads :
        Done(t, "schema") =>
            /\ th[t].schema.schema_type = "String"
            /\ Len(th[t].schema.enum_values) = 1
            /\ {th[t].schema.enum_values[i] : i \in 1..Len(th[t].schema.enum_values)}
                  = {Str(code)}

\* A schema was emitted for the literal "constant".
C5_Witness ==
    /\ code = Constant
    /\ \E t \in Threads : Done(t, "schema") /\ th[t].schema.enum_values = <<Str(Constant)>>

\* C6: a finished serialization made exactly one call on the serializer,
\* serialize_str with the bound literal, and its result is the serializer's:
\* it failed only if the serializer did, with the serializer's error.
C6_SerializeEmitsLiteral ==
    \A t \in Threads :
        Done(t, "serialize") =>
            /\ th[t].calls = <<Str(code)>>
            /\ th[t].res.kind = "Ok" <=> th[t].ser = "Ok"
            /\ th[t].res.kind # "Ok" => th[t].res.kind = "SerializerError"
            /\ th[t].res.kind = "Ok" => Str(code) \in wire

\* The empty literal was serialized into a serializer that accepted it.
C6_Witness ==
    /\ code = <<>>
    /\ \E t \in Threads :
          Done(t, "serialize") /\ th[t].res.kind = "Ok" /\ th[t].calls = <<Str(<<>>)>>

\* C7: every instance a thread holds, however it was obtained, has the
\* bound literal as its deref and to_string view; the views that were taken
\* are the literal, and a deserialized instance came from the literal.
C7_InstanceViewIsLiteral ==
    \A t \in Threads :
        /\ th[t].self # <<>> =>
              /\ deref(th[t].self[1]) = code
              /\ to_string(th[t].self[1]) = code
        /\ (Done(t, "deref") \/ Done(t, "to_string")) => th[t].text = code
        /\ (Done(t, "deserialize") /\ th[t].self # <<>>) => th[t].input = Str(code)

\* One thread took the view of an instance while the other holds a
\* deserialized one.
C7_Witness ==
    \E t, u \in Threads :
        /\ Done(t, "deref") /\ th[t].text = code
        /\ Done(u, "deserialize") /\ th[u].self = <<Self>>

\* C8: under every interleaving the constant keeps the literal it was
\* declared with, every visitor in flight was built from it, the outcome of a
\* finished deserialization is the function of the literal and its own input,
\* two threads that deserialized the same input hold the same outcome, and
\* serializations and schemas show the same literal.
C8_SameLiteralOwnInput ==
    /\ code_name = code
    /\ \A t \in Threads :
          /\ th[t].pc = "visiting" => th[t].visitor = code
          /\ Done(t, "deserialize") =>
                /\ th[t].visitor = code
                /\ th[t].res = deserialize_any(th[t].input, code)
          /\ Done(t, "serialize") => th[t].calls = <<Str(code)>>
          /\ Done(t, "schema") => th[t].schema.enum_values = <<Str(code)>>
    /\ \A t, u \in Threads :
          (Done(t, "deserialize") /\ Done(u, "deserialize") /\ th[t].input = th[u].input) =>
              (th[t].res = th[u].res /\ th[t].self = th[u].self)

\* The two threads hold different outcomes for different inputs, one of
\* them a success, while the wire already carries a serialized value.
C8_Witness ==
    \E t, u \in Threads :
        /\ t # u
        /\ Done(t, "deserialize") /\ th[t].res.kind = "Ok"
        /\ Done(u, "deserialize") /\ th[u].res.kind = "InvalidValue"
        /\ wire # {}

\* C9 as stated: the Debug text of an instance is the bound literal itself.
C9_DebugIsLiteral ==
    \A t \in Threads : Done(t, "debug") => th[t].text = code

\* C9 amended: the Debug text of an instance is the bound literal between
\* double quotes, with double quotes and backslashes inside it escaped; it
\* reads back as the literal and is never the bare literal.
C9_DebugIsQuotedLiteral ==
    \A t \in Threads :
        Done(t, "debug") =>
            /\ Len(th[t].text) >= Len(code) + 2
            /\ th[t].text[1] = DQ
            /\ th[t].text[Len(th[t].text)] = DQ
            /\ un_debug(th[t].text) = code
            /\ (\A i \in 1..Len(code) : code[i] \notin {DQ, BS}) =>
                  th[t].text = <<DQ>> \o code \o <<DQ>>

\* The literal "constant" rendered as "constant", quotes included.
C9_Witness ==
    /\ code = Constant
    /\ \E t \in Threads :
          Done(t, "debug") /\ th[t].text = <<DQ>> \o Constant \o <<DQ>>

StringEqualTo ==
    <<"s", "t", "r", "i", "n", "g", " ", "e", "q", "u", "a", "l", " ", "t", "o", " ">>

\* The shape an Unexpected variant describes.
ShapeOf(variant) ==
    CASE variant = "Str" -> "Str"
      [] variant = "Bool" -> "Bool"
      [] variant = "Unsigned" -> "Num"
      [] variant = "Unit" -> "Null"
      [] variant = "Seq" -> "Seq"
      [] variant = "Map" -> "Map"
      [] OTHER -> "None"

\* C10 as stated: the InvalidType failure of a non-string input names the
\* expectation "string equal to L" and describes the shape that was found.
C10_ExpectedStringEqualTo ==
    \A t \in Threads :
        (Done(t, "deserialize") /\ th[t].input.shape # "Str") =>
            /\ th[t].res.kind = "InvalidType"
            /\ th[t].res.exp = StringEqualTo \o code
            /\ ShapeOf(th[t].res.unexp.variant) = th[t].input.shape

\* C10 amended: the InvalidType failure of a non-string input names as its
\* expectation the literal in Debug form (between double quotes, nothing in
\* front), which reads back as the literal, and describes the shape and the
\* content that were found.
C10_ExpectedQuotedLiteral ==
    \A t \in Threads :
        (Done(t, "deserialize") /\ th[t].input.shape # "Str") =>
            /\ th[t].res.kind = "InvalidType"
            /\ Len(th[t].res.exp) >= Len(code) + 2
            /\ th[t].res.exp[1] = DQ
            /\ un_debug(th[t].res.exp) = code
            /\ ShapeOf(th[t].res.unexp.variant) = th[t].input.shape
            /\ th[t].res.unexp.val = th[t].input.val

\* Literal "constant", input 42: InvalidType, expected "constant", found an
\* unsigned number.
C10_Witness ==
    /\ code = Constant
    /\ \E t \in Threads :
          /\ Done(t, "deserialize")
          /\ th[t].input = Num
          /\ th[t].res = [kind |-> "InvalidType", unexp |-> Unexpected("Unsigned", <<"4", "2">>),
                          exp |-> <<DQ>> \o Constant \o <<DQ>>]

====
